---- MODULE Spec2Model ----
(***************************************************************************)
(* AutoStash: the event -> diff -> store -> view pipeline of               *)
(* event_handle::EventHandle and the channels main() wires around it.      *)
(*                                                                         *)
(* Four threads touch the Store behind one mutex:                          *)
(*   "fs"    the watcher thread, calling EventHandle::handle per event,    *)
(*   "undo"  the loop spawned by EventHandle::on_undo,                     *)
(*   "redo"  the loop spawned by EventHandle::on_redo,                     *)
(*   "tf"    the loop spawned by EventHandle::on_time_frame_change.        *)
(* The store, diff and filewatch crates are not part of the sources at     *)
(* hand; their operators below follow the written specification.           *)
(***************************************************************************)
EXTENDS Integers, Sequences, FiniteSets, TLC

VARIABLES
    disk,                 \* [Paths -> [is_file, lines]]: the watched files
    fs_events,            \* debounced events waiting for EventHandle::handle
    on_undo,              \* channel undo_to_handle -> on_undo
    on_redo,              \* channel redo_to_handle -> on_redo
    on_time_frame_change, \* channel time_frame_change_to_handle -> on_time_frame_change
    file_versions_to_ui,  \* channel file_versions_to_ui -> on_file_versions: every
                          \* snapshot sent, oldest first, as the UI receives them
    store,                \* the Store inside Arc<Mutex<Store>>
    mutex,                \* owner of the Store mutex, or Free
    pc,                   \* [Threads -> position of the thread in its loop]
    req,                  \* [Threads -> the message the thread is working on]
    view_buf,             \* [Threads -> the `view` local of transmit_file_versions]
    budget,               \* inputs the environment may still produce
    seq_no,               \* history: number of requests the UI has issued
    hist,                 \* history: the Store mutations completed so far, in order
    main_pc,              \* position of main(), or the way it ended
    exit_code,            \* exit status of the process, Running until it ends
    args,                 \* env::args(): the command line, binary first
    config,               \* what Config::new(env::args()) returned
    ui_pc,                \* the UI thread, owner of the senders of the input channels
    on_handle_quit,       \* channel quit_to_handle -> on_handle_quit
    faults,               \* Store writes that may still fail
    noticed,              \* history: the other events the watcher has reported
    tabs,                 \* App::tabs: TabsState
    versions,             \* App::versions: StatefulList
    overflow_checks       \* build profile: arithmetic overflow panics, or wraps

handler_vars == <<disk, fs_events, on_undo, on_redo, on_time_frame_change,
                  file_versions_to_ui, store, mutex, pc, req, view_buf,
                  budget, seq_no, hist>>

process_vars == <<main_pc, exit_code, args, config, ui_pc, on_handle_quit,
                  faults, noticed>>

tui_vars == <<tabs, versions, overflow_checks>>

vars == <<handler_vars, process_vars, tui_vars>>

----------------------------------------------------------------------------
(* Bounds of the model *)

MaxLines == 1
MaxCount == 1
MaxFsOps == 2
MaxRequests == 2

Paths == {"p1", "p2"}
Texts == {"a", "b"}
Threads == {"fs", "undo", "redo", "tf"}
Free == "free"

\* The loops that serve the UI's requests.
Loops == {"undo", "redo", "tf"}

RECURSIVE SeqsUpTo(_)
SeqsUpTo(n) ==
    IF n = 0 THEN {<<>>}
    ELSE LET shorter == SeqsUpTo(n - 1)
         IN  shorter \cup {Append(s, t) : s \in {x \in shorter : Len(x) = n - 1}, t \in Texts}

Contents == SeqsUpTo(MaxLines)

----------------------------------------------------------------------------
(* store::store::TimeFrame and the time-frame filter *)

TimeFrames == {"LastHour", "LastDay", "LastWeek"}

\* The clock, in hours since the daemon started; a run is shorter than an hour.
now == 0

HourWindow == 1
DayWindow == 24
WeekWindow == 168

Window(tf) ==
    CASE tf = "LastHour" -> HourWindow
      [] tf = "LastDay"  -> DayWindow
      [] tf = "LastWeek" -> WeekWindow

\* Entries with timestamp < cutoff are ignored when materialising.
InWindow(d, tf) == d.timestamp >= now - Window(tf)

----------------------------------------------------------------------------
(* diff::LineDifference *)

LineDifference(path, line_number, line, changed_line) ==
    [path |-> path, line_number |-> line_number, line |-> line,
     changed_line |-> changed_line, timestamp |-> now]

\* A record persisted by an earlier run of the daemon, `age` hours ago.
OldDifference(path, line_number, line, changed_line, age) ==
    [path |-> path, line_number |-> line_number, line |-> line,
     changed_line |-> changed_line, timestamp |-> now - age]

----------------------------------------------------------------------------
(* Materialisation: replay of line differences from the empty file *)

InsertAt(lines, n, text) ==
    IF n > Len(lines) THEN Append(lines, text)
    ELSE SubSeq(lines, 1, n - 1) \o <<text>> \o SubSeq(lines, n, Len(lines))

DeleteAt(lines, n) ==
    IF n > Len(lines) THEN lines
    ELSE SubSeq(lines, 1, n - 1) \o SubSeq(lines, n + 1, Len(lines))

ReplaceAt(lines, n, text) ==
    IF n > Len(lines) THEN Append(lines, text)
    ELSE [lines EXCEPT ![n] = text]

ApplyDifference(lines, d) ==
    IF d.line = "" THEN InsertAt(lines, d.line_number, d.changed_line)
    ELSE IF d.changed_line = "" THEN DeleteAt(lines, d.line_number)
    ELSE ReplaceAt(lines, d.line_number, d.changed_line)

RECURSIVE Materialise(_)
Materialise(changes) ==
    IF changes = <<>> THEN <<>>
    ELSE ApplyDifference(Materialise(SubSeq(changes, 1, Len(changes) - 1)),
                         changes[Len(changes)])

----------------------------------------------------------------------------
(* diff::find *)

Max(a, b) == IF a >= b THEN a ELSE b
Min(a, b) == IF a <= b THEN a ELSE b

\* The delta between the content reconstructed from `changes` and `current`,
\* one record per line index whose pair differs, in increasing line number.
LineDeltas(path, changes, current) ==
    LET prior == Materialise(changes)
        n     == Max(Len(prior), Len(current))
        pair  == [i \in 1..n |->
                    LineDifference(path, i,
                        IF i <= Len(prior) THEN prior[i] ELSE "",
                        IF i <= Len(current) THEN current[i] ELSE "")]
    IN  SelectSeq(pair, LAMBDA d : d.line # d.changed_line)

\* diff::find(path, &changes): Err when the file cannot be opened.
find(path, changes) ==
    IF disk[path].is_file
    THEN [ok |-> TRUE, changes |-> LineDeltas(path, changes, disk[path].lines)]
    ELSE [ok |-> FALSE, changes |-> <<>>]

----------------------------------------------------------------------------
(* store::store::Store *)

create_new_file_entry(s, path) ==
    [s EXCEPT !.entries = @ \cup {path}]

\* The applied prefix [0, cursor) of the log, filtered by the time frame.
get_file_changes(s, path) ==
    SelectSeq(SubSeq(s.log[path], 1, s.cursor[path]),
              LAMBDA d : InWindow(d, s.time_frame))

\* Truncates the undone suffix, appends, advances the cursor.
store_changes(s, path, changes) ==
    [s EXCEPT !.log[path] = SubSeq(@, 1, s.cursor[path]) \o changes,
              !.cursor[path] = @ + Len(changes)]

undo_by(s, path, count) ==
    [s EXCEPT !.cursor[path] = @ - Min(count, @)]

redo_by(s, path, count) ==
    [s EXCEPT !.cursor[path] = @ + Min(count, Len(s.log[path]) - @)]

change_time_frame(s, time_frame) ==
    [s EXCEPT !.time_frame = time_frame]

\* One file version per registered path.
view(s) ==
    [p \in s.entries |-> Materialise(get_file_changes(s, p))]

----------------------------------------------------------------------------
(* Messages and thread-local state *)

Msg(kind, path, count, tf, seq) ==
    [kind |-> kind, path |-> path, count |-> count, tf |-> tf, seq |-> seq]

NoMsg == Msg("none", "p1", 0, "LastHour", 0)

NoView == [p \in {} |-> <<>>]

File(lines) == [is_file |-> TRUE, lines |-> lines]
NoFile == [is_file |-> FALSE, lines |-> <<>>]

\* A snapshot on the channel, with the thread that sent it and the sequence
\* number of the request it answers (0 for a file-system event).
Snapshot(v, t) == [view |-> v, by |-> t, seq |-> req[t].seq]

Send(v, t) == file_versions_to_ui' = Append(file_versions_to_ui, Snapshot(v, t))

\* What the Store holds for `path`: cursor, log length and materialised lines.
Snap(s, path) ==
    [cursor |-> s.cursor[path], len |-> Len(s.log[path]),
     lines |-> Materialise(get_file_changes(s, path)),
     time_frame |-> s.time_frame]

\* History record of one completed Store mutation: the request, what the
\* Store held for its path before and after, and the view right after it.
Done(op, m, n, s, t) ==
    [op |-> op, path |-> m.path, n |-> n, seq |-> m.seq,
     pre |-> Snap(s, m.path), post |-> Snap(t, m.path), view |-> view(t)]

Record(op, m, n, s, t) == hist' = Append(hist, Done(op, m, n, s, t))

----------------------------------------------------------------------------
(* std::sync::Mutex<Store> *)

\* A lock that is taken without waiting for its holder.
LockBroken(t) == mutex' = t

\* store.lock(): blocks until the mutex is free.
Lock(t) ==
    /\ mutex = Free
    /\ mutex' = t

\* The MutexGuard is dropped.
Unlock == mutex' = Free

----------------------------------------------------------------------------
(* The command line and Config::new *)

MaxArgLen == 2
MaxArgs == 3

\* Characters of an argument: a digit, a sign, a letter.
Chars == {"7", "+", "x"}

Digits == <<"0", "1", "2", "3", "4", "5", "6", "7", "8", "9">>

IsDigit(c) == \E i \in DOMAIN Digits : Digits[i] = c

DigitValue(c) == (CHOOSE i \in DOMAIN Digits : Digits[i] = c) - 1

RECURSIVE StringsUpTo(_)
StringsUpTo(n) ==
    IF n = 0 THEN {<<>>}
    ELSE LET shorter == StringsUpTo(n - 1)
         IN  shorter \cup {Append(s, c) : s \in {x \in shorter : Len(x) = n - 1}, c \in Chars}

Strings == StringsUpTo(MaxArgLen)

RECURSIVE ArgListsUpTo(_)
ArgListsUpTo(n) ==
    IF n = 0 THEN {<<>>}
    ELSE LET shorter == ArgListsUpTo(n - 1)
         IN  shorter \cup {Append(a, w) : a \in {x \in shorter : Len(x) = n - 1}, w \in Strings}

\* The name of the binary, then up to MaxArgs arguments.
CommandLines == {<<(<<"x">>)>> \o a : a \in ArgListsUpTo(MaxArgs)}

RECURSIVE Decimal(_)
Decimal(digits) ==
    IF digits = <<>> THEN 0
    ELSE 10 * Decimal(SubSeq(digits, 1, Len(digits) - 1)) + DigitValue(digits[Len(digits)])

\* str::parse::<u64>: an optional "+", then one or more decimal digits.
\* (A value above u64::MAX is an error too; no argument here is that long.)
parse_u64(str) ==
    LET digits == IF str # <<>> /\ str[1] = "+" THEN Tail(str) ELSE str
    IN  IF digits # <<>> /\ \A i \in DOMAIN digits : IsDigit(digits[i])
        THEN [ok |-> TRUE, value |-> Decimal(digits)]
        ELSE [ok |-> FALSE, value |-> 0]

ConfigOk(store_path, watch_path, debounce_time) ==
    [result |-> "Ok", store_path |-> store_path, watch_path |-> watch_path,
     debounce_time |-> debounce_time, message |-> ""]

ConfigErr(message) ==
    [result |-> "Err", store_path |-> <<>>, watch_path |-> <<>>,
     debounce_time |-> 0, message |-> message]

\* The call did not return: `.unwrap()` on the Err of parse panicked.
ConfigPanic == [ConfigErr("") EXCEPT !.result = "Panic"]

NoConfig == [ConfigErr("") EXCEPT !.result = "None"]

\* Config::new(args): skip the binary, take three arguments, parse the third.
Config_new(a) ==
    LET rest == Tail(a)
    IN  IF Len(rest) < 1 THEN ConfigErr("Didn't get a store path")
        ELSE IF Len(rest) < 2 THEN ConfigErr("Didn't get a watch path")
        ELSE IF Len(rest) < 3 THEN ConfigErr("Didn't get a debounce time")
        ELSE IF parse_u64(rest[3]).ok
             THEN ConfigOk(rest[1], rest[2], parse_u64(rest[3]).value)
        ELSE ConfigPanic

----------------------------------------------------------------------------
(* main(): the process, and tui_main::App *)

\* exit_code while the process runs.
Running == -1

\* Exit status of a process whose main thread panicked.
PanicCode == 101

\* A command line Config::new accepts.
GoodArgs == <<(<<"x">>), <<"x">>, <<"x">>, <<"7">>>>

\* main() has come to `stage` with the command line `a`; the UI thread is
\* running; `f` Store writes may fail.
Process(stage, a, f) ==
    /\ main_pc = stage
    /\ exit_code = Running
    /\ args = a
    /\ config = IF stage = "config" THEN NoConfig ELSE Config_new(a)
    /\ ui_pc = "running"
    /\ on_handle_quit = <<>>
    /\ faults = f
    /\ noticed = {}

\* main() is inside auto_stash.run(), and no Store write fails.
InRun == Process("run", GoodArgs, 0)

\* Option<usize>: None is the empty set, Some(i) is {i}.
None == {}
Some(i) == {i}

\* The tabs of App::new: "1h", "24h", "7 Tage".
titles == <<"1h", "24h", "7 Tage">>

\* TabsState::new(titles) and StatefulList::with_items of `len` items.
TabsState_new == [index |-> 0]
with_items(len) == [selected |-> None, len |-> len]

\* App::new: no versions yet.
AppNew ==
    /\ tabs = TabsState_new
    /\ versions = with_items(0)
    /\ overflow_checks = FALSE

----------------------------------------------------------------------------
(* Initial state: EventHandle::new on a Store opened by Store::new, then   *)
(* init_file_versions                                                      *)

EmptyStore ==
    [entries |-> {}, log |-> [p \in Paths |-> <<>>], cursor |-> [p \in Paths |-> 0],
     time_frame |-> "LastHour"]

\* A store persisted by an earlier run: p1 was written as "a" two hours ago
\* and changed to "b" within the last hour.
PersistedAge == 2

PersistedStore ==
    [entries |-> {"p1"},
     log |-> [p \in Paths |->
                IF p = "p1"
                THEN <<OldDifference("p1", 1, "", "a", PersistedAge),
                       OldDifference("p1", 1, "a", "b", 0)>>
                ELSE <<>>],
     cursor |-> [p \in Paths |-> IF p = "p1" THEN 2 ELSE 0],
     time_frame |-> "LastHour"]

\* The handler right after EventHandle::new on Store `s` and
\* init_file_versions, with the files `d` on disk and the inputs `b` to come.
Started(s, d, b) ==
    /\ store = s
    /\ disk = d
    /\ fs_events = <<>>
    /\ on_undo = <<>>
    /\ on_redo = <<>>
    /\ on_time_frame_change = <<>>
    /\ file_versions_to_ui = <<[view |-> view(s), by |-> "main", seq |-> 0]>>
    /\ mutex = Free
    /\ pc = [t \in Threads |-> "idle"]
    /\ req = [t \in Threads |-> NoMsg]
    /\ view_buf = [t \in Threads |-> NoView]
    /\ budget = b
    /\ seq_no = 0
    /\ hist = <<>>

NoFiles == [p \in Paths |-> NoFile]

\* The file the persisted store knows, as it was last seen.
PersistedFiles == [p \in Paths |-> IF p = "p1" THEN File(<<"b">>) ELSE NoFile]

Init ==
    /\ \/ Started(EmptyStore, NoFiles, [fs |-> MaxFsOps, ui |-> MaxRequests])
       \/ Started(PersistedStore, PersistedFiles, [fs |-> MaxFsOps, ui |-> MaxRequests])
    /\ InRun
    /\ AppNew

----------------------------------------------------------------------------
(* Environment: the user's editor with the debounced watcher, and the UI *)

\* The user saves `path`; the watcher reports Write(path).
user_write(path, lines) ==
    /\ budget.fs > 0
    /\ disk' = [disk EXCEPT ![path] = File(lines)]
    /\ fs_events' = Append(fs_events, Msg("Write", path, 0, "LastHour", 0))
    /\ budget' = [budget EXCEPT !.fs = @ - 1]
    /\ UNCHANGED <<on_undo, on_redo, on_time_frame_change, file_versions_to_ui,
                   store, mutex, pc, req, view_buf, seq_no, hist>>
    /\ UNCHANGED <<process_vars, tui_vars>>

\* The user deletes `path`; the watcher reports Remove(path).
user_remove(path) ==
    /\ budget.fs > 0
    /\ disk[path].is_file
    /\ disk' = [disk EXCEPT ![path] = NoFile]
    /\ fs_events' = Append(fs_events, Msg("Remove", path, 0, "LastHour", 0))
    /\ budget' = [budget EXCEPT !.fs = @ - 1]
    /\ UNCHANGED <<on_undo, on_redo, on_time_frame_change, file_versions_to_ui,
                   store, mutex, pc, req, view_buf, seq_no, hist>>
    /\ UNCHANGED <<process_vars, tui_vars>>

\* The paths the UI can select: those of a snapshot it has been sent.
Selectable ==
    UNION {DOMAIN file_versions_to_ui[i].view : i \in DOMAIN file_versions_to_ui}

\* Key `u`: undo_to_handle.send((selected path, count)).
ui_undo(path, count) ==
    /\ budget.ui > 0
    /\ path \in Selectable
    /\ on_undo' = Append(on_undo, Msg("Undo", path, count, "LastHour", seq_no + 1))
    /\ seq_no' = seq_no + 1
    /\ budget' = [budget EXCEPT !.ui = @ - 1]
    /\ UNCHANGED <<disk, fs_events, on_redo, on_time_frame_change,
                   file_versions_to_ui, store, mutex, pc, req, view_buf, hist>>
    /\ UNCHANGED <<process_vars, tui_vars>>

\* Key `r`: redo_to_handle.send((selected path, count)).
ui_redo(path, count) ==
    /\ budget.ui > 0
    /\ path \in Selectable
    /\ on_redo' = Append(on_redo, Msg("Redo", path, count, "LastHour", seq_no + 1))
    /\ seq_no' = seq_no + 1
    /\ budget' = [budget EXCEPT !.ui = @ - 1]
    /\ UNCHANGED <<disk, fs_events, on_undo, on_time_frame_change,
                   file_versions_to_ui, store, mutex, pc, req, view_buf, hist>>
    /\ UNCHANGED <<process_vars, tui_vars>>

\* Keys left/right: time_frame_change_to_handle.send(tf).
ui_time_frame(tf) ==
    /\ budget.ui > 0
    /\ on_time_frame_change' =
           Append(on_time_frame_change, Msg("TimeFrame", "p1", 0, tf, seq_no + 1))
    /\ seq_no' = seq_no + 1
    /\ budget' = [budget EXCEPT !.ui = @ - 1]
    /\ UNCHANGED <<disk, fs_events, on_undo, on_redo, file_versions_to_ui,
                   store, mutex, pc, req, view_buf, hist>>
    /\ UNCHANGED <<process_vars, tui_vars>>

----------------------------------------------------------------------------
(* transmit_file_versions: lock, view, drop the guard, then send *)

transmit_lock(t) ==
    /\ pc[t] = "transmit"
    /\ Lock(t)
    /\ pc' = [pc EXCEPT ![t] = "viewing"]
    /\ UNCHANGED <<disk, fs_events, on_undo, on_redo, on_time_frame_change,
                   file_versions_to_ui, store, req, view_buf, budget, seq_no, hist>>
    /\ UNCHANGED <<process_vars, tui_vars>>

transmit_view(t) ==
    /\ pc[t] = "viewing"
    /\ view_buf' = [view_buf EXCEPT ![t] = view(store)]
    /\ Unlock
    /\ pc' = [pc EXCEPT ![t] = "send"]
    /\ UNCHANGED <<disk, fs_events, on_undo, on_redo, on_time_frame_change,
                   file_versions_to_ui, store, req, budget, seq_no, hist>>
    /\ UNCHANGED <<process_vars, tui_vars>>

\* The view is computed and dropped: the loop goes back to recv without a send.
TransmitWithoutSend(t) ==
    /\ pc[t] = "send"
    /\ view_buf' = [view_buf EXCEPT ![t] = NoView]
    /\ req' = [req EXCEPT ![t] = NoMsg]
    /\ pc' = [pc EXCEPT ![t] = "idle"]
    /\ UNCHANGED <<disk, fs_events, on_undo, on_redo, on_time_frame_change,
                   file_versions_to_ui, store, mutex, budget, seq_no, hist>>
    /\ UNCHANGED <<process_vars, tui_vars>>

transmit_send(t) ==
    /\ pc[t] = "send"
    /\ Send(view_buf[t], t)
    /\ view_buf' = [view_buf EXCEPT ![t] = NoView]
    /\ req' = [req EXCEPT ![t] = NoMsg]
    /\ pc' = [pc EXCEPT ![t] = "idle"]
    /\ UNCHANGED <<disk, fs_events, on_undo, on_redo, on_time_frame_change,
                   store, mutex, budget, seq_no, hist>>
    /\ UNCHANGED <<process_vars, tui_vars>>

----------------------------------------------------------------------------
(* EventHandle::on_undo: the undo loop *)

\* recv(), then store.lock(): the thread blocks until a message is there
\* and the mutex is free.
on_undo_recv ==
    /\ pc["undo"] = "idle"
    /\ on_undo # <<>>
    /\ Lock("undo")
    /\ req' = [req EXCEPT !["undo"] = Head(on_undo)]
    /\ on_undo' = Tail(on_undo)
    /\ pc' = [pc EXCEPT !["undo"] = "locked"]
    /\ UNCHANGED <<disk, fs_events, on_redo, on_time_frame_change,
                   file_versions_to_ui, store, view_buf, budget, seq_no, hist>>
    /\ UNCHANGED <<process_vars, tui_vars>>

\* The undo loop with the call of its twin, the redo loop.
UndoCallSwapped(s, path, count) == redo_by(s, path, count)

\* What the undo loop asks of the Store for the message (path, count).
UndoCall(s, path, count) == undo_by(s, path, count)

on_undo_by ==
    /\ pc["undo"] = "locked"
    /\ store' = UndoCall(store, req["undo"].path, req["undo"].count)
    /\ Record("undo", req["undo"], req["undo"].count, store, store')
    /\ Unlock
    /\ pc' = [pc EXCEPT !["undo"] = "transmit"]
    /\ UNCHANGED <<disk, fs_events, on_undo, on_redo, on_time_frame_change,
                   file_versions_to_ui, req, view_buf, budget, seq_no>>
    /\ UNCHANGED <<process_vars, tui_vars>>

----------------------------------------------------------------------------
(* EventHandle::on_redo: the redo loop *)

\* recv(), then store.lock(): the thread blocks until a message is there
\* and the mutex is free.
on_redo_recv ==
    /\ pc["redo"] = "idle"
    /\ on_redo # <<>>
    /\ Lock("redo")
    /\ req' = [req EXCEPT !["redo"] = Head(on_redo)]
    /\ on_redo' = Tail(on_redo)
    /\ pc' = [pc EXCEPT !["redo"] = "locked"]
    /\ UNCHANGED <<disk, fs_events, on_undo, on_time_frame_change,
                   file_versions_to_ui, store, view_buf, budget, seq_no, hist>>
    /\ UNCHANGED <<process_vars, tui_vars>>

\* What the redo loop asks of the Store for the message (path, count).
RedoCall(s, path, count) == redo_by(s, path, count)

on_redo_by ==
    /\ pc["redo"] = "locked"
    /\ store' = RedoCall(store, req["redo"].path, req["redo"].count)
    /\ Record("redo", req["redo"], req["redo"].count, store, store')
    /\ Unlock
    /\ pc' = [pc EXCEPT !["redo"] = "transmit"]
    /\ UNCHANGED <<disk, fs_events, on_undo, on_redo, on_time_frame_change,
                   file_versions_to_ui, req, view_buf, budget, seq_no>>
    /\ UNCHANGED <<process_vars, tui_vars>>

----------------------------------------------------------------------------
(* EventHandle::on_time_frame_change: the time-frame loop *)

\* recv(), then store.lock(): the thread blocks until a message is there
\* and the mutex is free.
on_time_frame_change_recv ==
    /\ pc["tf"] = "idle"
    /\ on_time_frame_change # <<>>
    /\ Lock("tf")
    /\ req' = [req EXCEPT !["tf"] = Head(on_time_frame_change)]
    /\ on_time_frame_change' = Tail(on_time_frame_change)
    /\ pc' = [pc EXCEPT !["tf"] = "locked"]
    /\ UNCHANGED <<disk, fs_events, on_undo, on_redo, file_versions_to_ui,
                   store, view_buf, budget, seq_no, hist>>
    /\ UNCHANGED <<process_vars, tui_vars>>

on_time_frame_change_set ==
    /\ pc["tf"] = "locked"
    /\ store' = change_time_frame(store, req["tf"].tf)
    /\ Record("time_frame", req["tf"], 0, store, store')
    /\ Unlock
    /\ pc' = [pc EXCEPT !["tf"] = "transmit"]
    /\ UNCHANGED <<disk, fs_events, on_undo, on_redo, on_time_frame_change,
                   file_versions_to_ui, req, view_buf, budget, seq_no>>
    /\ UNCHANGED <<process_vars, tui_vars>>

----------------------------------------------------------------------------
(* EventHandle::handle: the watcher thread hands over one debounced event *)

\* to_path: Some(path) for Write, Remove and NoticeWrite.
to_path(event) == event.kind \in {"Write", "Remove", "NoticeWrite"}

\* to_path: Err for Error, which handle returns with `?`.
to_path_err(event) == event.kind = "Error"

\* is_modification that also takes NoticeWrite for a modification.
IsModificationOrNotice(event) == event.kind \in {"Write", "NoticeWrite"}

is_modification(event) == event.kind = "Write"

is_removed(event) == event.kind = "Remove"

\* path.is_file(), asked of the file system when the event is handled.
is_file(path) == disk[path].is_file

\* Where handle goes with `event`: on_modification, on_removal, back with
\* Ok(()), or back with the Err of to_path.
HandleTarget(event) ==
    IF to_path_err(event) THEN "fatal"
    ELSE IF to_path(event) /\ is_file(event.path)
    THEN IF is_modification(event) THEN "on_file_change"
         ELSE IF is_removed(event) THEN "on_file_remove"
         ELSE "idle"
    ELSE "idle"

handle ==
    /\ pc["fs"] = "idle"
    /\ fs_events # <<>>
    /\ LET event == Head(fs_events)
           target == HandleTarget(event)
       IN  /\ pc' = [pc EXCEPT !["fs"] = target]
           /\ req' = [req EXCEPT !["fs"] = IF target = "idle" THEN NoMsg ELSE event]
    /\ fs_events' = Tail(fs_events)
    /\ UNCHANGED <<disk, on_undo, on_redo, on_time_frame_change,
                   file_versions_to_ui, store, mutex, view_buf, budget, seq_no, hist>>
    /\ UNCHANGED <<process_vars, tui_vars>>

----------------------------------------------------------------------------
(* EventHandle::on_file_change *)

on_file_change_lock ==
    /\ pc["fs"] = "on_file_change"
    /\ Lock("fs")
    /\ pc' = [pc EXCEPT !["fs"] = "on_file_change_locked"]
    /\ UNCHANGED <<disk, fs_events, on_undo, on_redo, on_time_frame_change,
                   file_versions_to_ui, store, req, view_buf, budget, seq_no, hist>>
    /\ UNCHANGED <<process_vars, tui_vars>>

\* The error return that leaves the guard behind.
DropKeepsGuard(s) ==
    /\ store' = s
    /\ Record("dropped", req["fs"], 0, store, s)
    /\ mutex' = mutex
    /\ pc' = [pc EXCEPT !["fs"] = "idle"]
    /\ req' = [req EXCEPT !["fs"] = NoMsg]
    /\ UNCHANGED <<file_versions_to_ui, view_buf>>

\* diff::find(..)? returned the error: the guard is dropped, nothing is sent;
\* the entry create_new_file_entry made stays.
DropEvent(s) ==
    /\ store' = s
    /\ Record("dropped", req["fs"], 0, store, s)
    /\ Unlock
    /\ pc' = [pc EXCEPT !["fs"] = "idle"]
    /\ req' = [req EXCEPT !["fs"] = NoMsg]
    /\ UNCHANGED <<file_versions_to_ui, view_buf>>

\* The mutation leaves the publish to transmit_file_versions, as the loops do.
StoreThenTransmit(op, s, changes) ==
    LET stored == store_changes(s, req["fs"].path, changes)
    IN  /\ store' = stored
        /\ Record(op, req["fs"], Len(changes), store, stored)
        /\ Unlock
        /\ pc' = [pc EXCEPT !["fs"] = "transmit"]
        /\ UNCHANGED <<file_versions_to_ui, req, view_buf>>

\* The view is sent, the changes are never handed to store_changes.
PublishWithoutStore(op, s, changes) ==
    /\ store' = s
    /\ Record(op, req["fs"], Len(changes), store, s)
    /\ Send(view(s), "fs")
    /\ Unlock
    /\ pc' = [pc EXCEPT !["fs"] = "idle"]
    /\ req' = [req EXCEPT !["fs"] = NoMsg]
    /\ UNCHANGED view_buf

\* store_changes, view and send under the one guard of the handler.
StoreAndPublish(op, s, changes) ==
    LET stored == store_changes(s, req["fs"].path, changes)
    IN  /\ store' = stored
        /\ Record(op, req["fs"], Len(changes), store, stored)
        /\ Send(view(stored), "fs")
        /\ Unlock
        /\ pc' = [pc EXCEPT !["fs"] = "idle"]
        /\ req' = [req EXCEPT !["fs"] = NoMsg]
        /\ UNCHANGED view_buf

on_file_change ==
    /\ pc["fs"] = "on_file_change_locked"
    /\ LET path == req["fs"].path
           registered == create_new_file_entry(store, path)
           found == find(path, get_file_changes(registered, path))
       IN  IF found.ok
           THEN StoreAndPublish("write", registered, found.changes)
           ELSE DropEvent(registered)
    /\ UNCHANGED <<disk, fs_events, on_undo, on_redo, on_time_frame_change,
                   budget, seq_no>>
    /\ UNCHANGED <<process_vars, tui_vars>>

----------------------------------------------------------------------------
(* EventHandle::on_file_remove *)

on_file_remove_lock ==
    /\ pc["fs"] = "on_file_remove"
    /\ Lock("fs")
    /\ pc' = [pc EXCEPT !["fs"] = "on_file_remove_locked"]
    /\ UNCHANGED <<disk, fs_events, on_undo, on_redo, on_time_frame_change,
                   file_versions_to_ui, store, req, view_buf, budget, seq_no, hist>>
    /\ UNCHANGED <<process_vars, tui_vars>>

\* changes.iter().map(|change| LineDifference::new(path, change.line_number,
\*                                                 change.changed_line, "")).collect()
SyntheticDeletions(path, changes) ==
    [i \in 1..Len(changes) |->
        LineDifference(path, changes[i].line_number, changes[i].changed_line, "")]

on_file_remove ==
    /\ pc["fs"] = "on_file_remove_locked"
    /\ LET path == req["fs"].path
       IN  StoreAndPublish("remove", store,
                           SyntheticDeletions(path, get_file_changes(store, path)))
    /\ UNCHANGED <<disk, fs_events, on_undo, on_redo, on_time_frame_change,
                   budget, seq_no>>
    /\ UNCHANGED <<process_vars, tui_vars>>

----------------------------------------------------------------------------
(* The system *)

Next ==
    \/ \E path \in Paths, lines \in Contents : user_write(path, lines)
    \/ \E path \in Paths : user_remove(path)
    \/ \E path \in Paths, count \in 1..MaxCount : ui_undo(path, count)
    \/ \E path \in Paths, count \in 1..MaxCount : ui_redo(path, count)
    \/ \E tf \in TimeFrames : ui_time_frame(tf)
    \/ handle
    \/ on_file_change_lock
    \/ on_file_change
    \/ on_file_remove_lock
    \/ on_file_remove
    \/ on_undo_recv
    \/ on_undo_by
    \/ on_redo_recv
    \/ on_redo_by
    \/ on_time_frame_change_recv
    \/ on_time_frame_change_set
    \/ \E t \in Threads : transmit_lock(t)
    \/ \E t \in Threads : transmit_view(t)
    \/ \E t \in Threads : transmit_send(t)

Spec == Init /\ [][Next]_vars

----------------------------------------------------------------------------
(* Runs long enough for a Write to fail in diff::find and be followed by    *)
(* further events                                                           *)

DropFsOps == 3
DropRequests == 1

DropInit ==
    /\ Started(PersistedStore, PersistedFiles, [fs |-> DropFsOps, ui |-> DropRequests])
    /\ InRun
    /\ AppNew

DropSpec == DropInit /\ [][Next]_vars

----------------------------------------------------------------------------
(* Failing Store writes, and the poisoned mutex they leave behind *)

FaultFsOps == 2
FaultRequests == 2
MaxFaults == 1

\* The mutex after a thread panicked while it held the guard.
Poisoned == "poisoned"

\* History record of a Store write that returned Err.
Failed(op, t) == Record(op, req[t], 0, store, store)

\* undo_by / redo_by returned Err: `.unwrap()` panics while the temporary
\* MutexGuard of the statement is alive, so the mutex is poisoned.
LoopCallFails(t, op) ==
    /\ pc[t] = "locked"
    /\ faults > 0
    /\ faults' = faults - 1
    /\ Failed(op, t)
    /\ mutex' = Poisoned
    /\ pc' = [pc EXCEPT ![t] = "panicked"]
    /\ req' = [req EXCEPT ![t] = NoMsg]
    /\ UNCHANGED <<disk, fs_events, on_undo, on_redo, on_time_frame_change,
                   file_versions_to_ui, store, view_buf, budget, seq_no>>
    /\ UNCHANGED <<main_pc, exit_code, args, config, ui_pc, on_handle_quit, noticed>>
    /\ UNCHANGED tui_vars

on_undo_by_err == LoopCallFails("undo", "undo_err")

on_redo_by_err == LoopCallFails("redo", "redo_err")

\* store_changes returned Err into `stored`; the handler goes on to view and
\* send. What the failed call left in memory is either the old or the new log.
StoreChangesFails(body, op, s, changes) ==
    /\ pc["fs"] = body
    /\ faults > 0
    /\ faults' = faults - 1
    /\ store' \in {s, store_changes(s, req["fs"].path, changes)}
    /\ Failed(op, "fs")
    /\ pc' = [pc EXCEPT !["fs"] = "stored_err"]
    /\ UNCHANGED <<disk, fs_events, on_undo, on_redo, on_time_frame_change,
                   file_versions_to_ui, mutex, req, view_buf, budget, seq_no>>
    /\ UNCHANGED <<main_pc, exit_code, args, config, ui_pc, on_handle_quit, noticed>>
    /\ UNCHANGED tui_vars

on_file_change_err ==
    LET path == req["fs"].path
        registered == create_new_file_entry(store, path)
        found == find(path, get_file_changes(registered, path))
    IN  /\ found.ok
        /\ StoreChangesFails("on_file_change_locked", "write_err", registered, found.changes)

on_file_remove_err ==
    LET path == req["fs"].path
    IN  StoreChangesFails("on_file_remove_locked", "remove_err", store,
                          SyntheticDeletions(path, get_file_changes(store, path)))

\* `let _view = store.view()?; send(_view)?; stored`: the view is sent, the
\* guard dropped, and handle returns the Err of store_changes.
publish_after_err ==
    /\ pc["fs"] = "stored_err"
    /\ Send(view(store), "fs")
    /\ Unlock
    /\ pc' = [pc EXCEPT !["fs"] = "fatal"]
    /\ req' = [req EXCEPT !["fs"] = NoMsg]
    /\ UNCHANGED <<disk, fs_events, on_undo, on_redo, on_time_frame_change,
                   store, view_buf, budget, seq_no, hist>>
    /\ UNCHANGED <<process_vars, tui_vars>>

\* The process ends, and every thread with it.
Halt ==
    /\ pc' = [t \in Threads |-> "exited"]
    /\ budget' = [fs |-> 0, ui |-> 0]
    /\ UNCHANGED <<disk, fs_events, on_undo, on_redo, on_time_frame_change,
                   file_versions_to_ui, store, mutex, req, view_buf, seq_no, hist>>

\* process::exit(code), or the return of main.
Exit(code, how) ==
    /\ exit_code' = code
    /\ main_pc' = how
    /\ Halt
    /\ UNCHANGED <<args, config, ui_pc, on_handle_quit, faults, noticed>>
    /\ UNCHANGED tui_vars

\* The Err of handle reaches run(), run() returns it, main exits with 1.
store_fatal ==
    /\ pc["fs"] = "fatal"
    /\ exit_code = Running
    /\ Exit(1, "run_error")

\* recv() delivers a message, then store.lock().unwrap() panics on the
\* poisoned mutex: the message is lost.
recv_poisoned(t) ==
    /\ pc[t] = "idle"
    /\ mutex = Poisoned
    /\ \/ t = "undo" /\ on_undo # <<>>
       \/ t = "redo" /\ on_redo # <<>>
       \/ t = "tf" /\ on_time_frame_change # <<>>
    /\ on_undo' = IF t = "undo" THEN Tail(on_undo) ELSE on_undo
    /\ on_redo' = IF t = "redo" THEN Tail(on_redo) ELSE on_redo
    /\ on_time_frame_change' =
          IF t = "tf" THEN Tail(on_time_frame_change) ELSE on_time_frame_change
    /\ pc' = [pc EXCEPT ![t] = "panicked"]
    /\ UNCHANGED <<disk, fs_events, file_versions_to_ui, store, mutex, req,
                   view_buf, budget, seq_no, hist>>
    /\ UNCHANGED <<process_vars, tui_vars>>

\* store.lock().unwrap() of transmit_file_versions, on_file_change or
\* on_file_remove panics on the poisoned mutex.
lock_poisoned(t) ==
    /\ pc[t] \in {"transmit", "on_file_change", "on_file_remove"}
    /\ mutex = Poisoned
    /\ pc' = [pc EXCEPT ![t] = "panicked"]
    /\ req' = [req EXCEPT ![t] = NoMsg]
    /\ UNCHANGED <<disk, fs_events, on_undo, on_redo, on_time_frame_change,
                   file_versions_to_ui, store, mutex, view_buf, budget, seq_no, hist>>
    /\ UNCHANGED <<process_vars, tui_vars>>

FaultInit ==
    /\ Started(PersistedStore, PersistedFiles, [fs |-> FaultFsOps, ui |-> FaultRequests])
    /\ Process("run", GoodArgs, MaxFaults)
    /\ AppNew

FaultNext ==
    \/ Next
    \/ on_undo_by_err
    \/ on_redo_by_err
    \/ on_file_change_err
    \/ on_file_remove_err
    \/ publish_after_err
    \/ store_fatal
    \/ \E t \in Loops : recv_poisoned(t)
    \/ \E t \in Threads : lock_poisoned(t)

FaultSpec == FaultInit /\ [][FaultNext]_vars

----------------------------------------------------------------------------
(* The watcher's other reports: events that are neither Write nor Remove    *)
(* of a regular file                                                        *)

WatchFsOps == 2
WatchRequests == 1
MaxNotices == 1

\* DebouncedEvent variants besides Write and Remove.
OtherKinds == {"NoticeWrite", "Create", "Rename", "Chmod", "Error"}

Report(kind, path) ==
    /\ Cardinality(noticed) < MaxNotices
    /\ <<kind, path>> \notin noticed
    /\ fs_events' = Append(fs_events, Msg(kind, path, 0, "LastHour", 0))
    /\ noticed' = noticed \cup {<<kind, path>>}
    /\ UNCHANGED <<disk, on_undo, on_redo, on_time_frame_change, file_versions_to_ui,
                   store, mutex, pc, req, view_buf, budget, seq_no, hist>>
    /\ UNCHANGED <<main_pc, exit_code, args, config, ui_pc, on_handle_quit, faults>>
    /\ UNCHANGED tui_vars

\* NoticeWrite(path), Create(path), Rename(_, path), Chmod(path), or
\* Error(_, Some(path)).
watcher_notice(kind, path) ==
    /\ kind \in OtherKinds
    /\ Report(kind, path)

\* Write(path) or Remove(path) for a path that is a directory: not a file.
watcher_directory(kind, path) ==
    /\ kind \in {"Write", "Remove"}
    /\ ~disk[path].is_file
    /\ Report(kind, path)

\* The Err of handle for an Error event is logged and the watcher goes on.
watcher_error_logged ==
    /\ pc["fs"] = "fatal"
    /\ exit_code = Running
    /\ pc' = [pc EXCEPT !["fs"] = "idle"]
    /\ UNCHANGED <<disk, fs_events, on_undo, on_redo, on_time_frame_change,
                   file_versions_to_ui, store, mutex, req, view_buf, budget, seq_no, hist>>
    /\ UNCHANGED <<process_vars, tui_vars>>

WatchInit ==
    /\ Started(PersistedStore, PersistedFiles, [fs |-> WatchFsOps, ui |-> WatchRequests])
    /\ InRun
    /\ AppNew

WatchNext ==
    \/ Next
    \/ \E kind \in OtherKinds, path \in Paths : watcher_notice(kind, path)
    \/ \E kind \in {"Write", "Remove"}, path \in Paths : watcher_directory(kind, path)
    \/ watcher_error_logged
    \/ store_fatal

WatchSpec == WatchInit /\ [][WatchNext]_vars

----------------------------------------------------------------------------
(* Quit: the UI ends and drops its ends of the channels, run() returns *)

ShutdownRequests == 2

\* The receiver end of the input channel of loop `t`.
Chan(t) ==
    CASE t = "undo" -> on_undo
      [] t = "redo" -> on_redo
      [] t = "tf"   -> on_time_frame_change

\* The threads main() or run() waits for: every JoinHandle of thread::spawn
\* is discarded on the spot.
Joined == {}

\* Key `q`: the UI sends Quit on quit_to_handle and leaves its event loop.
ui_quit ==
    /\ ui_pc = "running"
    /\ exit_code = Running
    /\ on_handle_quit' = Append(on_handle_quit, "Quit")
    /\ ui_pc' = "quitting"
    /\ budget' = [budget EXCEPT !.ui = 0]
    /\ UNCHANGED <<disk, fs_events, on_undo, on_redo, on_time_frame_change,
                   file_versions_to_ui, store, mutex, pc, req, view_buf, seq_no, hist>>
    /\ UNCHANGED <<main_pc, exit_code, args, config, faults, noticed>>
    /\ UNCHANGED tui_vars

\* ui::run(ui) returns: `ui` is dropped, and with it the senders of the
\* input channels and the receiver of file_versions_to_ui.
ui_drop ==
    /\ ui_pc = "quitting"
    /\ exit_code = Running
    /\ ui_pc' = "done"
    /\ UNCHANGED handler_vars
    /\ UNCHANGED <<main_pc, exit_code, args, config, on_handle_quit, faults, noticed>>
    /\ UNCHANGED tui_vars

\* recv() on the empty channel whose sender is gone returns Err, and
\* `.unwrap()` panics. No MutexGuard is alive in that statement.
loop_disconnected(t) ==
    /\ pc[t] = "idle"
    /\ Chan(t) = <<>>
    /\ ui_pc = "done"
    /\ pc' = [pc EXCEPT ![t] = "panicked"]
    /\ UNCHANGED <<disk, fs_events, on_undo, on_redo, on_time_frame_change,
                   file_versions_to_ui, store, mutex, req, view_buf, budget, seq_no, hist>>
    /\ UNCHANGED <<process_vars, tui_vars>>

\* send(view) fails, the receiver being gone: process::exit(1).
transmit_send_err(t) ==
    /\ pc[t] = "send"
    /\ ui_pc = "done"
    /\ Exit(1, "send_error")

\* auto_stash.run() has seen Quit on on_handle_quit and returns Ok.
run_returns ==
    /\ main_pc = "run"
    /\ on_handle_quit # <<>>
    /\ main_pc' = "returned"
    /\ UNCHANGED handler_vars
    /\ UNCHANGED <<exit_code, args, config, ui_pc, on_handle_quit, faults, noticed>>
    /\ UNCHANGED tui_vars

\* main() returns: the process ends with status 0.
main_returns ==
    /\ main_pc = "returned"
    /\ exit_code = Running
    /\ Exit(0, "clean")

\* A quiet watched directory: the UI's requests, and Quit.
ShutdownInit ==
    /\ Started(PersistedStore, PersistedFiles, [fs |-> 0, ui |-> ShutdownRequests])
    /\ InRun
    /\ AppNew

ShutdownNext ==
    \/ \E path \in Paths, count \in 1..MaxCount : ui_undo(path, count)
    \/ \E path \in Paths, count \in 1..MaxCount : ui_redo(path, count)
    \/ \E tf \in TimeFrames : ui_time_frame(tf)
    \/ on_undo_recv
    \/ on_undo_by
    \/ on_redo_recv
    \/ on_redo_by
    \/ on_time_frame_change_recv
    \/ on_time_frame_change_set
    \/ \E t \in Loops : transmit_lock(t)
    \/ \E t \in Loops : transmit_view(t)
    \/ \E t \in Loops : ui_pc # "done" /\ transmit_send(t)
    \/ \E t \in Loops : transmit_send_err(t)
    \/ ui_quit
    \/ ui_drop
    \/ \E t \in Loops : loop_disconnected(t)
    \/ run_returns
    \/ main_returns

ShutdownSpec == ShutdownInit /\ [][ShutdownNext]_vars

----------------------------------------------------------------------------
(* main(): from the command line to the exit status *)

\* ui::run(ui) returns Err in the UI thread: process::exit(1).
ui_run_err ==
    /\ ui_pc = "running"
    /\ exit_code = Running
    /\ Exit(1, "ui_error")

\* Config::new(env::args()): Ok goes on, Err is process::exit(1), and a
\* panic of the main thread ends the process with PanicCode.
main_config ==
    /\ main_pc = "config"
    /\ exit_code = Running
    /\ config' = Config_new(args)
    /\ CASE config'.result = "Ok" ->
              /\ main_pc' = "new"
              /\ UNCHANGED <<exit_code, handler_vars>>
         [] config'.result = "Err" ->
              /\ main_pc' = "arg_error"
              /\ exit_code' = 1
              /\ Halt
         [] config'.result = "Panic" ->
              /\ main_pc' = "panicked"
              /\ exit_code' = PanicCode
              /\ Halt
    /\ UNCHANGED <<args, ui_pc, on_handle_quit, faults, noticed>>
    /\ UNCHANGED tui_vars

\* AutoStash::new(&config, ..) returns Ok: the Store is open.
main_new ==
    /\ main_pc = "new"
    /\ exit_code = Running
    /\ main_pc' = "run"
    /\ UNCHANGED handler_vars
    /\ UNCHANGED <<exit_code, args, config, ui_pc, on_handle_quit, faults, noticed>>
    /\ UNCHANGED tui_vars

\* AutoStash::new returns Err (the Store cannot be opened): process::exit(1).
main_new_err ==
    /\ main_pc = "new"
    /\ exit_code = Running
    /\ Exit(1, "store_open_error")

\* auto_stash.run() returns Err: process::exit(1).
main_run_err ==
    /\ main_pc = "run"
    /\ exit_code = Running
    /\ Exit(1, "run_error")

\* main() starts with any command line; the UI thread is spawned first.
StartInit ==
    /\ Started(EmptyStore, NoFiles, [fs |-> 0, ui |-> 0])
    /\ \E a \in CommandLines : Process("config", a, 0)
    /\ AppNew

StartNext ==
    \/ ui_run_err
    \/ main_config
    \/ main_new
    \/ main_new_err
    \/ main_run_err
    \/ ui_quit
    \/ ui_drop
    \/ run_returns
    \/ main_returns

StartSpec == StartInit /\ [][StartNext]_vars

----------------------------------------------------------------------------
(* tui_main::App: the tabs and the version list *)

UsizeBits == 4
MaxItems == 3

usize_MAX == 2 ^ UsizeBits - 1

\* a - b in usize: the difference, or on overflow a panic (overflow checks
\* on) or the wrapped value (overflow checks off).
usize_sub(a, b) ==
    IF a >= b THEN [panic |-> FALSE, value |-> a - b]
    ELSE IF overflow_checks THEN [panic |-> TRUE, value |-> 0]
    ELSE [panic |-> FALSE, value |-> a - b + usize_MAX + 1]

\* previous() that stops at the first tab.
PreviousSaturating(t) ==
    IF t.index > 0 THEN [t EXCEPT !.index = @ - 1] ELSE t

TabsState_next(t) == [t EXCEPT !.index = (@ + 1) % Len(titles)]

TabsState_previous(t) ==
    IF t.index > 0 THEN [t EXCEPT !.index = @ - 1]
    ELSE [t EXCEPT !.index = Len(titles) - 1]

\* The value selected, of a selection that is Some.
Selected(v) == CHOOSE i \in v.selected : TRUE

\* StatefulList::next: what is selected afterwards, or the panic.
StatefulList_next(v) ==
    IF v.selected = None THEN [panic |-> FALSE, list |-> [v EXCEPT !.selected = Some(0)]]
    ELSE LET i == Selected(v)
             last == usize_sub(v.len, 1)
         IN  IF last.panic THEN [panic |-> TRUE, list |-> v]
             ELSE IF i >= last.value
                  THEN [panic |-> FALSE, list |-> [v EXCEPT !.selected = Some(0)]]
                  ELSE [panic |-> FALSE, list |-> [v EXCEPT !.selected = Some(i + 1)]]

\* StatefulList::previous.
StatefulList_previous(v) ==
    IF v.selected = None THEN [panic |-> FALSE, list |-> [v EXCEPT !.selected = Some(0)]]
    ELSE LET i == Selected(v)
             last == usize_sub(v.len, 1)
         IN  IF i = 0
             THEN IF last.panic THEN [panic |-> TRUE, list |-> v]
                  ELSE [panic |-> FALSE, list |-> [v EXCEPT !.selected = Some(last.value)]]
             ELSE [panic |-> FALSE, list |-> [v EXCEPT !.selected = Some(i - 1)]]

\* A call on the version list in the UI thread, which a panic ends.
ListCall(r) ==
    /\ ui_pc = "running"
    /\ versions' = r.list
    /\ ui_pc' = IF r.panic THEN "panicked" ELSE ui_pc
    /\ UNCHANGED handler_vars
    /\ UNCHANGED <<main_pc, exit_code, args, config, on_handle_quit, faults, noticed>>
    /\ UNCHANGED <<tabs, overflow_checks>>

on_up == ListCall(StatefulList_previous(versions))

on_down == ListCall(StatefulList_next(versions))

unselect == ListCall([panic |-> FALSE, list |-> [versions EXCEPT !.selected = None]])

TabsCall(t) ==
    /\ ui_pc = "running"
    /\ tabs' = t
    /\ UNCHANGED handler_vars
    /\ UNCHANGED process_vars
    /\ UNCHANGED <<versions, overflow_checks>>

on_right == TabsCall(TabsState_next(tabs))

on_left == TabsCall(TabsState_previous(tabs))

\* App::new with a version list of any length, built with either profile.
TuiInit ==
    /\ Started(EmptyStore, NoFiles, [fs |-> 0, ui |-> 0])
    /\ InRun
    /\ tabs = TabsState_new
    /\ \E n \in 0..MaxItems : versions = with_items(n)
    /\ overflow_checks \in BOOLEAN

TuiNext ==
    \/ on_up
    \/ on_down
    \/ unselect
    \/ on_right
    \/ on_left

TuiSpec == TuiInit /\ [][TuiNext]_vars

----------------------------------------------------------------------------
(* Claims *)

Last(q) == q[Len(q)]

\* The thread is inside a Store operation.
InStore(t) ==
    pc[t] \in {"locked", "viewing", "on_file_change_locked", "on_file_remove_locked"}

\* The thread has taken its turn and waits for store.lock().
AwaitsLock(t) == pc[t] \in {"transmit", "on_file_change", "on_file_remove"}

\* The step is one of the watcher thread leaving the body of a handler.
FsLeaves(body) == pc["fs"] = body /\ pc'["fs"] # body

\* C1: every view put on file_versions_to_ui reflects all Store mutations
\* completed by the time it is sent: it is the view of the Store as it is then.
C1_ViewsInMutationOrder ==
    [][Len(file_versions_to_ui') > Len(file_versions_to_ui)
         => Last(file_versions_to_ui').view = view(store')]_vars

\* C2: a handler that has mutated the Store for a message holds the mutex
\* until the view for that message is sent.
C2_MutexHeldUntilPublish ==
    \A t \in Threads : pc[t] \in {"transmit", "viewing", "send"} => mutex = t

\* C3: a thread inside a Store operation owns the mutex, and at most one
\* thread is inside a Store operation.
C3_MutualExclusion ==
    /\ \A t \in Threads : InStore(t) => mutex = t
    /\ Cardinality({t \in Threads : InStore(t)}) <= 1

\* A thread is inside the Store while another one waits for the mutex.
C3_Witness ==
    \E t, u \in Threads : t # u /\ InStore(t) /\ mutex = t /\ AwaitsLock(u)

\* The delta diff::find yields for the Write event the watcher thread handles.
WriteDelta ==
    LET path == req["fs"].path
    IN  find(path, get_file_changes(create_new_file_entry(store, path), path))

\* C4: a Write event whose delta is empty appends nothing and sends no view.
C4_EmptyDeltaNoPublish ==
    [][(FsLeaves("on_file_change_locked") /\ WriteDelta.ok /\ WriteDelta.changes = <<>>)
         => /\ file_versions_to_ui' = file_versions_to_ui
            /\ store'.log = store.log]_vars

\* C5: a Remove(p) event for a path with applied changes is taken to
\* on_file_remove, which appends the synthetic deletions and publishes a view.
C5_RemoveIsHandled ==
    [][(/\ pc["fs"] = "idle"
        /\ fs_events # <<>>
        /\ fs_events' = Tail(fs_events)
        /\ Head(fs_events).kind = "Remove"
        /\ get_file_changes(store, Head(fs_events).path) # <<>>)
         => pc'["fs"] = "on_file_remove"]_vars

\* One deletion record per line of `lines`: its number, its text, no text after.
SurvivingDeletions(path, lines) ==
    [i \in 1..Len(lines) |-> LineDifference(path, i, lines[i], "")]

\* C6: the records on_file_remove appends are exactly one deletion per line
\* surviving in the content reconstructed from the applied changes.
C6_OneDeletionPerSurvivingLine ==
    [][FsLeaves("on_file_remove_locked")
         => LET path == req["fs"].path
            IN  store'.log[path] =
                    SubSeq(store.log[path], 1, store.cursor[path])
                    \o SurvivingDeletions(path, Materialise(get_file_changes(store, path)))]_vars

\* The snapshots sent for request `seq` by thread `t`.
Published(t, seq) ==
    {file_versions_to_ui[i].view :
        i \in {j \in DOMAIN file_versions_to_ui :
                 file_versions_to_ui[j].by = t /\ file_versions_to_ui[j].seq = seq}}

\* hist[i] is a Remove of k synthetic deletions and hist[i+1] the Undo(p, k).
RemoveThenUndo(i) ==
    /\ i + 1 <= Len(hist)
    /\ hist[i].op = "remove"
    /\ hist[i + 1].op = "undo"
    /\ hist[i + 1].path = hist[i].path
    /\ hist[i + 1].n = hist[i].n

\* C7: after Remove(p) appended k synthetic deletions, Undo(p, k) brings the
\* view of p back to what it was before the Remove, in the Store and in the
\* view published for the undo.
C7_RemoveThenUndoRestores ==
    \A i \in DOMAIN hist :
        RemoveThenUndo(i)
          => /\ hist[i + 1].post.lines = hist[i].pre.lines
             /\ Len(hist) = i + 1
                  => \A v \in Published("undo", hist[i + 1].seq) :
                        /\ hist[i].path \in DOMAIN v
                        /\ v[hist[i].path] = hist[i].pre.lines

\* A Remove of a non-empty file was undone and the view for it published.
C7_Witness ==
    \E i \in DOMAIN hist :
        /\ RemoveThenUndo(i)
        /\ Len(hist) = i + 1
        /\ hist[i].pre.lines # <<>>
        /\ hist[i].post.lines = <<>>
        /\ Published("undo", hist[i + 1].seq) # {}

\* C8: Undo(p, n) and Redo(p, n), issued by the UI in that order with
\* n <= cursor and handled with no other mutation in between, in whichever
\* order the two loops get to them, leave the view of p as it was.
C8_UndoThenRedoRestores ==
    \A i \in DOMAIN hist :
        (/\ i + 1 <= Len(hist)
         /\ {hist[i].op, hist[i + 1].op} = {"undo", "redo"}
         /\ hist[i].path = hist[i + 1].path
         /\ hist[i].n = hist[i + 1].n
         /\ hist[i].n <= hist[i].pre.cursor
         /\ \E u, r \in {i, i + 1} :
               hist[u].op = "undo" /\ hist[r].op = "redo" /\ hist[r].seq = hist[u].seq + 1)
          => hist[i + 1].post.lines = hist[i].pre.lines

\* hist[i] is a Write(p) with a non-empty delta right after an Undo(p, k)
\* that took k > 0 entries back.
WriteAfterUndo(i) ==
    /\ i > 1
    /\ hist[i].op = "write"
    /\ hist[i].n > 0
    /\ hist[i - 1].op = "undo"
    /\ hist[i - 1].path = hist[i].path
    /\ hist[i - 1].post.cursor < hist[i - 1].pre.cursor

\* C9: that Write discards the undone entries (the log is the applied prefix
\* plus the delta, the cursor at its end), and a Redo(p, k) right after it
\* changes neither cursor nor view.
C9_TruncationOnNewWrite ==
    \A i \in DOMAIN hist :
        WriteAfterUndo(i)
          => /\ hist[i].post.len = hist[i].pre.cursor + hist[i].n
             /\ hist[i].post.cursor = hist[i].post.len
             /\ (i + 1 <= Len(hist) /\ hist[i + 1].op = "redo"
                   /\ hist[i + 1].path = hist[i].path)
                  => /\ hist[i + 1].post.cursor = hist[i + 1].pre.cursor
                     /\ hist[i + 1].post.lines = hist[i + 1].pre.lines

\* An undone entry was discarded by a Write, and a Redo came after it.
C9_Witness ==
    \E i \in DOMAIN hist :
        /\ WriteAfterUndo(i)
        /\ hist[i].pre.cursor < hist[i].pre.len
        /\ i + 1 <= Len(hist)
        /\ hist[i + 1].op = "redo"
        /\ hist[i + 1].path = hist[i].path

\* The mutations the watcher thread made, and the snapshots it sent.
FsMutations == SelectSeq(hist, LAMBDA h : h.op \in {"write", "remove"})
FsSnapshots == SelectSeq(file_versions_to_ui, LAMBDA e : e.by = "fs")

\* C10: the write handler publishes exactly one view per event it stores, in
\* the order of its mutations, each the view of the Store right after its own
\* mutation, whatever the undo, redo and time-frame loops do meanwhile; and a
\* view a loop publishes for a request is the view of the Store right after
\* that request's mutation or after a later mutation.
C10_SerialWrites ==
    /\ Len(FsSnapshots) = Len(FsMutations)
    /\ \A j \in DOMAIN FsMutations : FsSnapshots[j].view = FsMutations[j].view
    /\ \A e \in DOMAIN file_versions_to_ui :
          file_versions_to_ui[e].seq > 0
            => \E i, k \in DOMAIN hist :
                  /\ hist[i].seq = file_versions_to_ui[e].seq
                  /\ i <= k
                  /\ file_versions_to_ui[e].view = hist[k].view

\* Two writes with non-empty deltas to distinct paths, a mutation by another
\* loop between them, and two snapshots of which the second shows both files.
C10_Witness ==
    \E i, k \in DOMAIN hist :
        /\ i < k
        /\ hist[i].op = "write" /\ hist[k].op = "write"
        /\ hist[i].n > 0 /\ hist[k].n > 0
        /\ hist[i].path # hist[k].path
        /\ \E m \in DOMAIN hist : i < m /\ m < k /\ hist[m].op \in {"undo", "redo", "time_frame"}
        /\ Len(FsSnapshots) = 2
        /\ hist[i].path \in DOMAIN FsSnapshots[2].view
        /\ FsSnapshots[2].view[hist[i].path] # <<>>
        /\ FsSnapshots[2].view[hist[k].path] # <<>>

\* The places of file_versions_to_ui that answer request `seq`.
Answers(seq) ==
    {j \in DOMAIN file_versions_to_ui : file_versions_to_ui[j].seq = seq}

\* The places of hist that hold the mutation of request `seq`.
Applied(seq) == {i \in DOMAIN hist : hist[i].seq = seq}

\* Request `seq` has been received and its loop has not yet come back to recv.
InHand(seq) == \E t \in Loops : req[t].seq = seq

\* What the Store did for hist[i] is the clamped cursor move, or the swap of
\* the time frame, with the log left as it was.
ClampedMove(i) ==
    LET h == hist[i]
    IN  /\ h.post.len = h.pre.len
        /\ h.post.cursor \in 0..h.post.len
        /\ h.op = "undo" => /\ h.post.cursor = Max(0, h.pre.cursor - h.n)
                            /\ h.post.time_frame = h.pre.time_frame
        /\ h.op = "redo" => /\ h.post.cursor = Min(h.pre.len, h.pre.cursor + h.n)
                            /\ h.post.time_frame = h.pre.time_frame
        /\ h.op = "time_frame" => h.post.cursor = h.pre.cursor

\* C11: every Undo, Redo and TimeFrameChange message a loop has received is
\* applied to the Store once (cursor move clamped to [0, len], or the time
\* frame swapped to the one asked for) and answered by exactly one view,
\* computed after its mutation: none while the loop still works on it, one as
\* soon as the loop is back at recv, never two.
C11_OnePublishPerMessage ==
    /\ [](\A seq \in 1..seq_no :
            /\ Cardinality(Answers(seq)) <= 1
            /\ Cardinality(Applied(seq)) <= 1
            /\ InHand(seq) => Answers(seq) = {}
            /\ (Applied(seq) # {} /\ ~InHand(seq)) => Cardinality(Answers(seq)) = 1
            /\ \A j \in Answers(seq) : \E i \in Applied(seq), k \in DOMAIN hist :
                  /\ i <= k
                  /\ file_versions_to_ui[j].view = hist[k].view
            /\ \A i \in Applied(seq) : ClampedMove(i))
    /\ [][(pc["tf"] = "locked" /\ pc'["tf"] # "locked")
            => store' = [store EXCEPT !.time_frame = req["tf"].tf]]_vars

\* A clamped Undo (count above the cursor) and a change of the time frame
\* have both been applied and answered, and their loops are back at recv.
C11_Witness ==
    \E u, f \in 1..seq_no :
        /\ ~InHand(u) /\ ~InHand(f)
        /\ \E i \in Applied(u) :
              hist[i].op = "undo" /\ hist[i].n > hist[i].pre.cursor
        /\ \E i \in Applied(f) :
              hist[i].op = "time_frame" /\ hist[i].post.time_frame # hist[i].pre.time_frame
        /\ Cardinality(Answers(u)) = 1
        /\ Cardinality(Answers(f)) = 1

\* A Write event has been dropped because diff::find failed.
Dropped == \E i \in DOMAIN hist : hist[i].op = "dropped"

\* The step in which on_file_change returns the error of diff::find.
DropStep == FsLeaves("on_file_change_locked") /\ ~WriteDelta.ok

StoreWriteFailed ==
    \E i \in DOMAIN hist : hist[i].op \in {"write_err", "remove_err", "undo_err", "redo_err"}

\* No thread has a step left and no input is waiting.
Quiet ==
    /\ \A t \in Threads : pc[t] \in {"idle", "panicked", "exited"}
    /\ fs_events = <<>> /\ on_undo = <<>> /\ on_redo = <<>> /\ on_time_frame_change = <<>>

\* C13: once a Store write has failed no further view is sent and no further
\* message is taken from an input channel, and when everything has come to
\* rest the process has exited with a non-zero status.
C13_StoreErrorIsFatal ==
    /\ [][StoreWriteFailed
            => /\ file_versions_to_ui' = file_versions_to_ui
               /\ Len(fs_events') >= Len(fs_events)
               /\ Len(on_undo') >= Len(on_undo)
               /\ Len(on_redo') >= Len(on_redo)
               /\ Len(on_time_frame_change') >= Len(on_time_frame_change)]_vars
    /\ []((StoreWriteFailed /\ Quiet) => exit_code > 0)

\* C14: a loop that finds its channel empty with the sender gone terminates
\* normally, not by a panic, and leaves the mutex usable.
C14_CleanCancellation ==
    /\ [][\A t \in Loops :
            (pc[t] = "idle" /\ Chan(t) = <<>> /\ ui_pc = "done"
               /\ pc'[t] \notin {"idle", "exited"})
              => pc'[t] = "returned"]_vars
    /\ [](mutex # Poisoned)

\* C15: after Quit, when run() has returned, the input channels are closed
\* and every loop has terminated and been joined; and the process that ends
\* after a Quit ends with status 0.
C15_ShutdownOnQuit ==
    /\ [](main_pc = "returned"
            => /\ ui_pc = "done"
               /\ \A t \in Loops : pc[t] \in {"returned", "panicked"} /\ t \in Joined)
    /\ []((on_handle_quit # <<>> /\ exit_code # Running) => exit_code = 0)

\* C16: the process that ends on a UI error ends with status 2, on an
\* argument or Store open error with status 1, on a clean shutdown with 0.
C16_ExitCodes ==
    exit_code # Running
      => /\ main_pc = "ui_error" => exit_code = 2
         /\ main_pc \in {"arg_error", "store_open_error"} => exit_code = 1
         /\ main_pc = "clean" => exit_code = 0

\* The argument is a non-negative integer: digits, with or without a "+".
NonNegativeInteger(str) ==
    \E digits \in {str} \cup {Tail(w) : w \in {x \in {str} : x # <<>> /\ x[1] = "+"}} :
        /\ digits # <<>>
        /\ \A i \in DOMAIN digits : IsDigit(digits[i])

\* store_path, watch_path and debounce_time are given, the last one valid.
ArgsValid(a) == Len(a) >= 4 /\ NonNegativeInteger(a[4])

\* C17: Config::new returns Ok exactly for a command line with the three
\* arguments present and valid, and an Err value for every other one.
C17_ConfigNewReturnsErr ==
    config.result # "None"
      => /\ ArgsValid(args) => config.result = "Ok"
         /\ ~ArgsValid(args) => config.result = "Err"

\* The tab right of each tab and the tab left of it, counted from 0, and the
\* time frame each tab stands for.
RightOf == <<1, 2, 0>>
LeftOf == <<2, 0, 1>>
TabTimeFrame == <<"LastHour", "LastDay", "LastWeek">>

\* C18: the selected tab is always one of the three; next goes 0 -> 1 -> 2
\* -> 0, that is LastHour -> LastDay -> LastWeek -> LastHour; previous undoes
\* next and next undoes previous; and a step of the UI moves the tab only to
\* its right or left neighbour.
C18_TabsCycle ==
    /\ [](/\ tabs.index \in 0..2
          /\ Len(titles) = Len(TabTimeFrame)
          /\ TabsState_next(tabs).index = RightOf[tabs.index + 1]
          /\ TabsState_previous(tabs).index = LeftOf[tabs.index + 1]
          /\ TabsState_previous(TabsState_next(tabs)) = tabs
          /\ TabsState_next(TabsState_previous(tabs)) = tabs)
    /\ [][tabs' # tabs
            => tabs'.index \in {RightOf[tabs.index + 1], LeftOf[tabs.index + 1]}]_vars

\* The last tab is selected: next wraps to the first, previous came from it.
C18_Witness ==
    /\ tabs.index = 2
    /\ TabTimeFrame[tabs.index + 1] = "LastWeek"
    /\ TabsState_next(tabs).index = 0

\* The event handle is about to take is one it must ignore: not a Write or
\* Remove, or of a path that is not a regular file.
Ignored(event) ==
    \/ event.kind \notin {"Write", "Remove"}
    \/ ~disk[event.path].is_file

\* C19: handling an ignored event is one step that takes it from the queue,
\* leaves the Store (logs, cursors, registered paths) as it was, publishes no
\* view, records no mutation and enters neither on_file_change nor
\* on_file_remove; only an Error event makes handle return Err.
C19_IgnoredEventsChangeNothing ==
    [][(/\ pc["fs"] = "idle"
        /\ fs_events # <<>>
        /\ fs_events' = Tail(fs_events)
        /\ Ignored(Head(fs_events)))
         => /\ store' = store
            /\ file_versions_to_ui' = file_versions_to_ui
            /\ hist' = hist
            /\ view_buf' = view_buf
            /\ mutex' = mutex
            /\ pc'["fs"] = IF Head(fs_events).kind = "Error" THEN "fatal" ELSE "idle"]_vars

\* NoticeWrite for the regular file p1, which has a log, has been handled:
\* nothing of the persisted Store changed and nothing was published after the
\* view sent at start.
C19_Witness ==
    /\ <<"NoticeWrite", "p1">> \in noticed
    /\ disk["p1"].is_file
    /\ fs_events = <<>>
    /\ pc["fs"] = "idle"
    /\ store = PersistedStore
    /\ Len(file_versions_to_ui) = 1
    /\ hist = <<>>

\* C20: the selection of the version list is None or an index below the
\* number of items, and no call on the list panics.
C20_SelectionInRange ==
    /\ \A i \in versions.selected : i < versions.len
    /\ ui_pc # "panicked"

\* An undo_by or redo_by call of a loop has returned Err.
UndoRedoFailed ==
    \E i \in DOMAIN hist : hist[i].op \in {"undo_err", "redo_err"}

\* C21: after an Undo or Redo request whose Store call returned Err the
\* Store mutex can still be acquired and every handler thread is still
\* serving: none has panicked, so later events and requests are applied and
\* published.
C21_FaultIsolation ==
    UndoRedoFailed
        => /\ mutex # Poisoned
           /\ \A t \in Threads : pc[t] # "panicked"

====
